---- MODULE Spec2Model ----
(***************************************************************************)
(* A model of stlpb::static_vector<T, Capacity>                            *)
(* (include/palotasb/static_vector.hpp) holding the element types that     *)
(* tests.cpp stores in it: the self-checking Copyable_t and Movable_t, and *)
(* std::string.                                                            *)
(*                                                                         *)
(* Every storage slot carries the bytes of the element (inner, ok) and a   *)
(* lifetime bit con: con is set by a constructor call (placement new) and  *)
(* cleared by a destructor call, and by nothing else.  An assignment       *)
(* writes the bytes of a slot and leaves its lifetime as it was.           *)
(*                                                                         *)
(* Spec runs every member function on one container.  SpecPair runs the    *)
(* copy and move members between two containers, SpecSource the range      *)
(* insert over sources of every iterator category, and SpecThrow the       *)
(* members that construct elements with constructors that can throw.       *)
(***************************************************************************)
EXTENDS Integers, Sequences, FiniteSets, TLC

\* ---------------------------------------------------------------- bounds
Capacity == 3          \* the Capacity template parameter
MaxVal == 1            \* payloads (Copyable_t::inner) are 0..MaxVal
MaxRange == 2          \* longest source range handed to insert(pos,first,last)
SizeBits == 3          \* width of size_type

Values == 0..MaxVal
SizeMod == 2^SizeBits
SizeT == 0..(SizeMod - 1)
Idx == 0..(Capacity - 1)
Vecs == {"v"}                    \* the container the single-container runs use
Objs == {"u", "v"}               \* the container objects: v and a second one, u
Other(c) == IF c = "u" THEN "v" ELSE "u"
\* Copyable_t: copyable, and its move is a copy.  Movable_t: move only, a move
\* clears the source's self pointer.  std::string: copyable, and a move leaves
\* the source valid but unspecified.
Types == {"Copyable", "Movable", "String"}

RECURSIVE SeqsUpTo(_)
SeqsUpTo(n) ==
    IF n = 0 THEN {<<>>}
    ELSE LET S == SeqsUpTo(n - 1)
         IN  S \cup {Append(s, x) : s \in {q \in S : Len(q) = n - 1}, x \in Values}

Ranges == SeqsUpTo(MaxRange)            \* sources of insert(pos,first,last)
Lists == SeqsUpTo(Capacity + 1)         \* sources of the sequence constructors

VARIABLES T, alive, m_size, m_data, constructed_, last
vars == <<T, alive, m_size, m_data, constructed_, last>>

\* ------------------------------------------------------- the element type
\* std::array<storage_type, static_capacity> m_data = {} : zeroed storage
ZeroSlot == [con |-> FALSE, inner |-> 0, ok |-> FALSE]
ZeroData == [i \in Idx |-> ZeroSlot]

\* Copyable_t(U&& t) / Movable_t(U&& t): self(this), inner = t
value_ctor(x) == [con |-> TRUE, inner |-> x, ok |-> TRUE]
\* Copyable_t() / Movable_t(): self(this), inner = {}
default_ctor == [con |-> TRUE, inner |-> 0, ok |-> TRUE]
\* Copyable_t(const Copyable_t&), Movable_t(Movable_t&&):
\*   self(other.verify() ? this : nullptr), inner(other.inner)
copy_ctor(other) == [con |-> TRUE, inner |-> other.inner, ok |-> other.ok]
\* (mutant) a move ends the lifetime of its source
moved_from_gone(other) == [other EXCEPT !.con = FALSE, !.ok = FALSE]
\* what a move leaves in its source: Copyable_t moves by copying and leaves the
\* source alone, Movable_t sets other.self = nullptr (verify() fails from then
\* on), a std::string no longer holds its value; ok is false for both
moved_from(other) == IF T = "Copyable" THEN other ELSE [other EXCEPT !.ok = FALSE]
\* is_copy_constructible<T>: what the overloads taking const value_type& need
copyable == T # "Movable"

\* The state of one operation on one container's storage:
\*   d the slots, f the lifetime faults seen, b constructor calls, k destructor calls
Mem(d) == [d |-> d, f |-> {}, b |-> 0, k |-> 0]

Fault(M, cond, name) == IF cond THEN M.f \cup {name} ELSE M.f

\* new (&slot) value_type(...)
Construct(M, i, s) ==
    IF i \notin Idx THEN [M EXCEPT !.f = @ \cup {"out_of_bounds"}, !.b = @ + 1]
    ELSE [M EXCEPT !.d[i] = s,
                   !.f = Fault(M, M.d[i].con, "construct_over_live"),
                   !.b = @ + 1]

\* slot.~value_type() : ~Copyable_t() { constructed_--; } leaves the bytes
DestroyAt(M, i) ==
    IF i \notin Idx THEN [M EXCEPT !.f = @ \cup {"out_of_bounds"}, !.k = @ + 1]
    ELSE [M EXCEPT !.d[i].con = FALSE,
                   !.f = Fault(M, ~M.d[i].con, "destroy_unconstructed"),
                   !.k = @ + 1]

\* slot[dst] = std::move(slot[src]) :
\*   self = other.verify() ? this : nullptr; inner = other.inner; (other.self = nullptr)
MoveAssign(M, dst, src) ==
    IF dst \notin Idx \/ src \notin Idx THEN [M EXCEPT !.f = @ \cup {"out_of_bounds"}]
    ELSE LET s == M.d[src]
             t == M.d[dst]
             d1 == [M.d EXCEPT ![dst] = [con |-> t.con, inner |-> s.inner, ok |-> s.ok]]
             d2 == [d1 EXCEPT ![src] = moved_from(d1[src])]
             f1 == Fault(M, ~t.con, "assign_unconstructed")
             f2 == IF s.con THEN f1 ELSE f1 \cup {"read_unconstructed"}
         IN  [M EXCEPT !.d = d2, !.f = f2]

\* (mutant) the tail shifted to the right front to back, as std::move would
RECURSIVE move_backward_fwd(_, _, _, _)
move_backward_fwd(M, first, lst, d_last) ==
    IF first >= lst THEN M
    ELSE move_backward_fwd(MoveAssign(M, d_last - (lst - first), first),
                           first + 1, lst, d_last)

\* std::move_backward(first, last, d_last): the last element is moved first
RECURSIVE move_backward(_, _, _, _)
move_backward(M, first, lst, d_last) ==
    IF first >= lst THEN M
    ELSE move_backward(MoveAssign(M, d_last - 1, lst - 1), first, lst - 1, d_last - 1)

\* (mutant) the tail shifted to the left back to front, as std::move_backward would
RECURSIVE move_forward_bwd(_, _, _, _)
move_forward_bwd(M, first, lst, d_first) ==
    IF first >= lst THEN M
    ELSE move_forward_bwd(MoveAssign(M, d_first + (lst - first) - 1, lst - 1),
                          first, lst - 1, d_first)

\* std::move(first, last, d_first): the first element is moved first
RECURSIVE move_forward(_, _, _, _)
move_forward(M, first, lst, d_first) ==
    IF first >= lst THEN M
    ELSE move_forward(MoveAssign(M, d_first, first), first + 1, lst, d_first + 1)

\* (mutant) no destructor is run
destroy_none(M, first, lst) == M

\* std::for_each(first, last, [](reference r) { r.~value_type(); })
RECURSIVE destroy_each(_, _, _)
destroy_each(M, first, lst) ==
    IF first >= lst THEN M
    ELSE destroy_each(DestroyAt(M, first), first + 1, lst)

\* std::uninitialized_fill / for_each placement new of one value in [first, last)
RECURSIVE construct_each(_, _, _, _)
construct_each(M, first, lst, s) ==
    IF first >= lst THEN M
    ELSE construct_each(Construct(M, first, s), first + 1, lst, s)

\* placement new of value_type(*insert_begin++) for each element of a source
RECURSIVE construct_from(_, _, _, _)
construct_from(M, first, src, j) ==
    IF j > Len(src) THEN M
    ELSE construct_from(Construct(M, first + j - 1, value_ctor(src[j])), first, src, j + 1)

\* (mutant) the source copied back to front into the slots 0 .. n-1
RECURSIVE uninitialized_copy_rev(_, _, _, _)
uninitialized_copy_rev(M, od, n, j) ==
    IF j >= n THEN M
    ELSE uninitialized_copy_rev(Construct(M, j, copy_ctor(od[n - 1 - j])), od, n, j + 1)

\* std::uninitialized_copy(other.begin(), other.end(), begin()), n = other.m_size
RECURSIVE uninitialized_copy(_, _, _, _)
uninitialized_copy(M, od, n, j) ==
    IF j >= n THEN M
    ELSE LET M1 == Construct(M, j, copy_ctor(od[j]))
             M2 == [M1 EXCEPT !.f = Fault(M1, ~od[j].con, "read_unconstructed")]
         IN  uninitialized_copy(M2, od, n, j + 1)

\* ------------------------------------------------------------ observers
size(c) == m_size[c]
empty(c) == m_size[c] = 0
\* (mutant) full only once the size is past the capacity
full_past(c) == m_size[c] > Capacity
full(c) == m_size[c] = Capacity

\* (mutant) one element more than the capacity is let through
too_many_lax(count) == count > Capacity + 1
\* count <= static_capacity ? count : throw std::out_of_range("size()")
\* if (m_size > static_capacity) throw std::out_of_range("size()")
too_many(count) == count > Capacity

\* (mutant) only the wrapped sum is compared to the capacity
exceeds_nowrap(c, count) == Capacity < (m_size[c] + count) % SizeMod
\* (mutant) the sum is compared to the capacity with <= turned around
exceeds_lax(c, count) ==
    LET sum == (m_size[c] + count) % SizeMod
    IN  sum < m_size[c] \/ Capacity + 1 < sum
\* m_size + count < m_size /*ovf*/ || static_capacity < m_size + count
exceeds(c, count) ==
    LET sum == (m_size[c] + count) % SizeMod
    IN  sum < m_size[c] \/ Capacity < sum

\* (mutant) index <= m_size
in_range_le(c, index) == index <= m_size[c]
\* if (index < m_size) return data(index); else throw std::out_of_range("index")
in_range(c, index) == index < m_size[c]

\* reference data(size_t index): the slot at index, of the array or beyond it
data(c, index) == IF index \in Idx THEN m_data[c][index] ELSE ZeroSlot

\* the element sequence [begin, end) as the tests read it: the payload of each
\* element (operator==) and whether it still verifies
Elems(c) == [i \in 1..m_size[c] |-> [inner |-> m_data[c][i - 1].inner,
                                     ok |-> m_data[c][i - 1].ok]]

\* The record of the last call: the operation and its arguments, the element
\* sequence and size before it (pre, presize), how it ended (res), the cursor
\* index it returned (ret) and what it did to element lifetimes.  For an erase
\* that comes right after a successful single insert at the same position, undo
\* is set and orig is the element sequence from before that insert.  o is the
\* container a copy or move took its elements from; peer and peersize are the
\* element sequence and size of the other container before the call.  cat is
\* the iterator category of the source of a range insert and advances the
\* number of times the call stepped an iterator over a position of that source
NoOp == [op |-> "none", c |-> "v", pos |-> 0, count |-> 0, val |-> 0,
         rng |-> <<>>, pre |-> <<>>, presize |-> 0, res |-> "ok", ret |-> -1,
         faults |-> {}, built |-> 0, destroyed |-> 0,
         undo |-> FALSE, orig |-> <<>>,
         o |-> "none", peer |-> <<>>, peersize |-> 0,
         cat |-> "none", advances |-> 0]

Call(op, c) == [NoOp EXCEPT !.op = op, !.c = c, !.pre = Elems(c), !.presize = m_size[c],
                            !.peer = Elems(Other(c)), !.peersize = m_size[Other(c)]]

\* the record of a call that ran on storage M
Ran(call, M) == [call EXCEPT !.faults = M.f, !.built = M.b, !.destroyed = M.k]

\* commit a call on container c: new size, storage, counter and call record
Commit(c, sz, M, call) ==
    /\ m_size' = [m_size EXCEPT ![c] = sz]
    /\ m_data' = [m_data EXCEPT ![c] = M.d]
    /\ constructed_' = constructed_ + M.b - M.k
    /\ last' = Ran(call, M)

\* a call that threw on its capacity or range check, before it used its
\* position, value or source: the record keeps the count or index it checked
Throw(call, what) ==
    /\ last' = [call EXCEPT !.res = what, !.val = 0, !.rng = <<>>,
                            !.pos = IF call.op = "at" THEN @ ELSE 0]
    /\ UNCHANGED <<T, alive, m_size, m_data, constructed_>>

Init ==
    /\ T \in Types
    /\ alive = [c \in Objs |-> FALSE]
    /\ m_size = [c \in Objs |-> 0]
    /\ m_data = [c \in Objs |-> ZeroData]
    /\ constructed_ = 0
    /\ last = NoOp

\* ---------------------------------------------------------- constructors
\* static_vector() noexcept : m_size(0) {}
CtorDefault(c) ==
    /\ ~alive[c]
    /\ alive' = [alive EXCEPT ![c] = TRUE]
    /\ Commit(c, 0, Mem(ZeroData), Call("ctor_default", c))
    /\ UNCHANGED T

\* static_vector(size_type count, const_reference value)
CtorCountValue(c, count, x) ==
    /\ ~alive[c]
    /\ copyable
    /\ LET call == [Call("ctor_count_value", c) EXCEPT !.count = count, !.val = x]
       IN  IF too_many(count)
           THEN Throw(call, "CapacityExceeded")
           ELSE /\ alive' = [alive EXCEPT ![c] = TRUE]
                /\ Commit(c, count,
                          construct_each(Mem(ZeroData), 0, count, copy_ctor(value_ctor(x))),
                          call)
                /\ UNCHANGED T

\* static_vector(size_type count)
CtorCount(c, count) ==
    /\ ~alive[c]
    /\ LET call == [Call("ctor_count", c) EXCEPT !.count = count]
       IN  IF too_many(count)
           THEN Throw(call, "CapacityExceeded")
           ELSE /\ alive' = [alive EXCEPT ![c] = TRUE]
                /\ Commit(c, count, construct_each(Mem(ZeroData), 0, count, default_ctor), call)
                /\ UNCHANGED T

\* static_vector(std::initializer_list<value_type> init_list)
CtorInitList(c, lst) ==
    /\ ~alive[c]
    /\ copyable
    /\ LET call == [Call("ctor_init_list", c) EXCEPT !.count = Len(lst), !.rng = lst]
           sz == Len(lst)
       IN  IF too_many(sz)
           THEN Throw(call, "CapacityExceeded")
           ELSE /\ alive' = [alive EXCEPT ![c] = TRUE]
                /\ Commit(c, sz, construct_from(Mem(ZeroData), 0, lst, 1), call)
                /\ UNCHANGED T

\* static_vector(Iter input_begin, Iter input_end)
CtorRange(c, lst) ==
    /\ ~alive[c]
    /\ LET call == [Call("ctor_range", c) EXCEPT !.count = Len(lst), !.rng = lst]
           sz == Len(lst)
       IN  IF too_many(sz)
           THEN Throw(call, "CapacityExceeded")
           ELSE /\ alive' = [alive EXCEPT ![c] = TRUE]
                /\ Commit(c, sz, construct_from(Mem(ZeroData), 0, lst, 1), call)
                /\ UNCHANGED T

\* the storage of another container of the same type that holds the elements
\* of lst, each constructed from its payload
other_data(lst) == construct_from(Mem(ZeroData), 0, lst, 1).d

\* static_vector(const static_vector& other), other holding lst
CtorCopy(c, lst) ==
    /\ ~alive[c]
    /\ copyable
    /\ alive' = [alive EXCEPT ![c] = TRUE]
    /\ Commit(c, Len(lst), uninitialized_copy(Mem(ZeroData), other_data(lst), Len(lst), 0),
              [Call("ctor_copy", c) EXCEPT !.count = Len(lst), !.rng = lst])
    /\ UNCHANGED T

\* static_vector(static_vector&& other), other holding lst
CtorMove(c, lst) ==
    /\ ~alive[c]
    /\ alive' = [alive EXCEPT ![c] = TRUE]
    /\ Commit(c, Len(lst), uninitialized_copy(Mem(ZeroData), other_data(lst), Len(lst), 0),
              [Call("ctor_move", c) EXCEPT !.count = Len(lst), !.rng = lst])
    /\ UNCHANGED T

\* what std::make_move_iterator leaves in the first n slots of the source
moved_out(od, n) == [i \in Idx |-> IF i < n THEN moved_from(od[i]) ELSE od[i]]

\* commit a call on container c that moved the elements out of container o
CommitMoved(c, sz, M, o, call) ==
    /\ m_size' = [m_size EXCEPT ![c] = sz]
    /\ m_data' = [m_data EXCEPT ![c] = M.d, ![o] = moved_out(m_data[o], m_size[o])]
    /\ constructed_' = constructed_ + M.b - M.k
    /\ last' = Ran(call, M)

\* static_vector(const static_vector& other), other being the container o
CtorCopyOf(c, o) ==
    /\ ~alive[c] /\ alive[o] /\ c # o
    /\ copyable
    /\ alive' = [alive EXCEPT ![c] = TRUE]
    /\ Commit(c, m_size[o], uninitialized_copy(Mem(ZeroData), m_data[o], m_size[o], 0),
              [Call("ctor_copy_of", c) EXCEPT !.count = m_size[o], !.o = o])
    /\ UNCHANGED T

\* static_vector(static_vector&& other), other being the container o
CtorMoveOf(c, o) ==
    /\ ~alive[c] /\ alive[o] /\ c # o
    /\ alive' = [alive EXCEPT ![c] = TRUE]
    /\ CommitMoved(c, m_size[o],
                   uninitialized_copy(Mem(ZeroData), m_data[o], m_size[o], 0), o,
                   [Call("ctor_move_of", c) EXCEPT !.count = m_size[o], !.o = o])
    /\ UNCHANGED T

\* the storage of c after clear() and std::uninitialized_copy from container o
assigned_from(c, o) ==
    uninitialized_copy(destroy_each(Mem(m_data[c]), 0, m_size[c]), m_data[o], m_size[o], 0)

\* static_vector& operator=(const static_vector& other), other being the container o
AssignCopyOf(c, o) ==
    /\ alive[c] /\ alive[o] /\ c # o
    /\ copyable
    /\ Commit(c, m_size[o], assigned_from(c, o),
              [Call("assign_copy_of", c) EXCEPT !.count = m_size[o], !.o = o])
    /\ UNCHANGED <<T, alive>>

\* static_vector& operator=(static_vector&& other), other being the container o
AssignMoveOf(c, o) ==
    /\ alive[c] /\ alive[o] /\ c # o
    /\ CommitMoved(c, m_size[o], assigned_from(c, o), o,
                   [Call("assign_move_of", c) EXCEPT !.count = m_size[o], !.o = o])
    /\ UNCHANGED <<T, alive>>

\* the body of both assignment operators when &other != this:
\*   clear(); m_size = other.m_size; std::uninitialized_copy(..., begin())
assign(c, op, lst) ==
    LET M1 == destroy_each(Mem(m_data[c]), 0, m_size[c])
        M2 == uninitialized_copy(M1, other_data(lst), Len(lst), 0)
    IN  /\ Commit(c, Len(lst), M2, [Call(op, c) EXCEPT !.count = Len(lst), !.rng = lst])
        /\ UNCHANGED <<T, alive>>

\* Both assignment operators when the element constructor throws at the
\* element of index k of other: clear() and m_size = other.m_size have run,
\* std::uninitialized_copy has constructed the elements before k, destroys
\* them again and rethrows
assign_fails(c, op, lst, k) ==
    LET M1 == destroy_each(Mem(m_data[c]), 0, m_size[c])
        M2 == uninitialized_copy(M1, other_data(lst), k, 0)
        M3 == destroy_each(M2, 0, k)
    IN  /\ Commit(c, Len(lst), M3,
                  [Call(op, c) EXCEPT !.count = Len(lst), !.rng = lst, !.pos = k,
                                      !.res = "ElementError"])
        /\ UNCHANGED <<T, alive>>

\* operator=(const static_vector& other) with a copy constructor that throws
AssignCopyFails(c, lst, k) ==
    /\ alive[c]
    /\ copyable
    /\ k < Len(lst)
    /\ assign_fails(c, "assign_copy", lst, k)

\* operator=(static_vector&& other) with a move constructor that throws
AssignMoveFails(c, lst, k) ==
    /\ alive[c]
    /\ k < Len(lst)
    /\ assign_fails(c, "assign_move", lst, k)

\* static_vector& operator=(const static_vector& other), other holding lst
AssignCopy(c, lst) ==
    /\ alive[c]
    /\ copyable
    /\ assign(c, "assign_copy", lst)

\* static_vector& operator=(static_vector&& other), other holding lst
AssignMove(c, lst) ==
    /\ alive[c]
    /\ assign(c, "assign_move", lst)

\* both assignment operators when &other == this: return *this
AssignSelf(c, op) ==
    /\ alive[c]
    /\ op = "assign_copy" => copyable
    /\ last' = [Call(op, c) EXCEPT !.count = m_size[c], !.res = "self"]
    /\ UNCHANGED <<T, alive, m_size, m_data, constructed_>>

\* ~static_vector() { clear(); } ; an object still constructed in the storage
\* when it goes away is never destroyed
Dtor(c) ==
    /\ alive[c]
    /\ LET M == destroy_each(Mem(m_data[c]), 0, m_size[c])
           M1 == [M EXCEPT !.f = Fault(M, \E i \in Idx : M.d[i].con, "abandon_live"),
                           !.d = ZeroData]
       IN  Commit(c, 0, M1, Call("dtor", c))
    /\ alive' = [alive EXCEPT ![c] = FALSE]
    /\ UNCHANGED T

\* ------------------------------------------------------------ modifiers
\* void clear()
Clear(c) ==
    /\ alive[c]
    /\ Commit(c, 0, destroy_each(Mem(m_data[c]), 0, m_size[c]), Call("clear", c))
    /\ UNCHANGED <<T, alive>>

\* std::move_backward(mut_pos, end(), end() + 1); new (mut_pos) value_type(value)
inserted(c, pos, x) ==
    Construct(move_backward(Mem(m_data[c]), pos, m_size[c], m_size[c] + 1), pos, value_ctor(x))

\* the body shared by insert(pos, const value_type&), insert(pos, value_type&&)
\* and emplace(pos, args...)
insert_one(c, op, pos, x) ==
    LET call == [Call(op, c) EXCEPT !.pos = pos, !.val = x, !.count = 1]
    IN  IF full(c)
        THEN Throw(call, "CapacityExceeded")
        ELSE /\ Commit(c, (m_size[c] + 1) % SizeMod, inserted(c, pos, x),
                       [call EXCEPT !.ret = pos])
             /\ UNCHANGED <<T, alive>>

\* iterator insert(const_iterator pos, const value_type& value)
InsertCopy(c, pos, x) ==
    /\ alive[c]
    /\ copyable
    /\ insert_one(c, "insert_copy", pos, x)

\* iterator insert(const_iterator pos, value_type&& value)
InsertMove(c, pos, x) ==
    /\ alive[c]
    /\ insert_one(c, "insert_move", pos, x)

\* iterator emplace(const_iterator pos, CtorArgs&&... args)
Emplace(c, pos, x) ==
    /\ alive[c]
    /\ insert_one(c, "emplace", pos, x)

\* iterator erase(const_iterator pos)
Erase(c, pos) ==
    /\ alive[c]
    /\ LET M1 == DestroyAt(Mem(m_data[c]), pos)
           M2 == move_forward(M1, pos + 1, m_size[c], pos)
           after_insert == /\ last.op \in {"insert_copy", "insert_move", "emplace"}
                           /\ last.res = "ok" /\ last.c = c /\ last.pos = pos
       IN  Commit(c, (m_size[c] - 1) % SizeMod, M2,
                  [Call("erase", c) EXCEPT !.pos = pos, !.ret = pos,
                                           !.undo = after_insert,
                                           !.orig = IF after_insert THEN last.pre ELSE <<>>])
    /\ UNCHANGED <<T, alive>>

\* (mutant) the new element is constructed in the first slot
appended_first(c, x) == Construct(Mem(m_data[c]), 0, value_ctor(x))
\* new (storage_end()) value_type(value)
appended(c, x) == Construct(Mem(m_data[c]), m_size[c], value_ctor(x))

\* void push_back(const value_type& value) / void push_back(value_type&& value)
push_back(c, op, x) ==
    LET call == [Call(op, c) EXCEPT !.val = x, !.count = 1, !.pos = m_size[c]]
    IN  IF full(c)
        THEN Throw(call, "CapacityExceeded")
        ELSE /\ Commit(c, (m_size[c] + 1) % SizeMod, appended(c, x), call)
             /\ UNCHANGED <<T, alive>>

\* (mutant) m_size++ ahead of the placement new
size_counted_first(c) == (m_size[c] + 1) % SizeMod
\* m_size when the placement new of push_back throws: m_size++ comes after it
size_at_throw(c) == m_size[c]

\* push_back when the element constructor throws: full() is checked first,
\* then the exception leaves the function from the placement new
push_back_fails(c, op, x) ==
    LET call == [Call(op, c) EXCEPT !.val = x, !.count = 1, !.pos = m_size[c]]
    IN  IF full(c)
        THEN Throw(call, "CapacityExceeded")
        ELSE /\ Commit(c, size_at_throw(c), Mem(m_data[c]), [call EXCEPT !.res = "ElementError"])
             /\ UNCHANGED <<T, alive>>

PushBackCopyFails(c, x) ==
    /\ alive[c]
    /\ copyable
    /\ push_back_fails(c, "push_back_copy", x)

PushBackMoveFails(c, x) ==
    /\ alive[c]
    /\ push_back_fails(c, "push_back_move", x)

PushBackCopy(c, x) ==
    /\ alive[c]
    /\ copyable
    /\ push_back(c, "push_back_copy", x)

PushBackMove(c, x) ==
    /\ alive[c]
    /\ push_back(c, "push_back_move", x)

\* iterator insert(const_iterator pos, size_type count, const value_type& value)
InsertCount(c, pos, count, x) ==
    /\ alive[c]
    /\ copyable
    /\ LET call == [Call("insert_count", c) EXCEPT !.pos = pos, !.count = count, !.val = x]
           sum == (m_size[c] + count) % SizeMod
       IN  IF exceeds(c, count)
           THEN Throw(call, "CapacityExceeded")
           ELSE LET M1 == move_backward(Mem(m_data[c]), pos, m_size[c], m_size[c] + count)
                    M2 == construct_each(M1, pos, pos + count, copy_ctor(value_ctor(x)))
                IN  /\ Commit(c, sum, M2, [call EXCEPT !.ret = pos])
                    /\ UNCHANGED <<T, alive>>

\* the iterator categories of a source range: a pointer or std::array
\* iterator, a std::list iterator, a std::istream_iterator
Categories == {"random_access", "forward", "input"}

\* the steps std::distance(first, last) takes over a source of n elements:
\* last - first for random access iterators, n times ++ on a copy of first
\* for every other category
distance_steps(cat, n) == IF cat = "random_access" THEN 0 ELSE n

\* what n times *insert_begin++ yields after std::distance has run.  The
\* copies of a single-pass iterator share the stream, which std::distance has
\* read to its end: insert_begin still holds the first element, and every
\* later one is read through an iterator that is past the end of the stream,
\* which may yield any value
read_after_distance(cat, rng) ==
    IF cat = "input" /\ Len(rng) >= 2
    THEN {<<rng[1]>> \o j : j \in {q \in SeqsUpTo(Len(rng) - 1) : Len(q) = Len(rng) - 1}}
    ELSE {rng}

\* iterator insert(const_iterator pos, InputIter insert_begin, InputIter insert_end)
\* for a source rng whose iterators are of category cat
InsertRangeFrom(c, pos, rng, cat) ==
    /\ alive[c]
    /\ LET count == Len(rng)
           call == [Call("insert_range", c) EXCEPT
                       !.pos = pos, !.count = count, !.rng = rng, !.cat = cat,
                       !.advances = distance_steps(cat, count)]
           sum == (m_size[c] + count) % SizeMod
       IN  IF count < 0 \/ exceeds(c, count)
           THEN Throw(call, "CapacityExceeded")
           ELSE \E seen \in read_after_distance(cat, rng) :
                  LET M1 == move_backward(Mem(m_data[c]), pos, m_size[c], m_size[c] + count)
                      M2 == construct_from(M1, pos, seen, 1)
                  IN  /\ Commit(c, sum, M2,
                                [call EXCEPT !.ret = pos, !.advances = @ + count])
                      /\ UNCHANGED <<T, alive>>

\* the range insert with the sources the tests hand it: std::array iterators
InsertRange(c, pos, rng) == InsertRangeFrom(c, pos, rng, "random_access")

\* ------------------------------------------------------- element access
\* reference at(size_type index)
At(c, index) ==
    /\ alive[c]
    /\ LET call == [Call("at", c) EXCEPT !.pos = index]
       IN  IF in_range(c, index)
           THEN /\ last' = [call EXCEPT !.ret = index, !.val = data(c, index).inner]
                /\ UNCHANGED <<T, alive, m_size, m_data, constructed_>>
           ELSE Throw(call, "OutOfRange")

\* v[index] = value_type(x): reference operator[](size_t index) noexcept, and
\* the element's assignment operator on the reference it returns
WriteAt(c, index, x) ==
    /\ alive[c]
    /\ index < m_size[c]
    /\ LET M == Mem(m_data[c])
           t == m_data[c][index]
           M1 == [M EXCEPT !.d[index] = [con |-> t.con, inner |-> x, ok |-> TRUE],
                           !.f = Fault(M, ~t.con, "assign_unconstructed")]
       IN  Commit(c, m_size[c], M1, [Call("write", c) EXCEPT !.pos = index, !.val = x])
    /\ UNCHANGED <<T, alive>>

Positions == Idx \cup {Capacity}         \* cursors begin() .. begin() + Capacity
Indexes == 0..(Capacity + 1)             \* arguments of at()

Next ==
    \/ \E c \in Vecs : CtorDefault(c)
    \/ \E c \in Vecs, n \in SizeT, x \in Values : CtorCountValue(c, n, x)
    \/ \E c \in Vecs, n \in SizeT : CtorCount(c, n)
    \/ \E c \in Vecs, l \in Lists : CtorInitList(c, l)
    \/ \E c \in Vecs, l \in Lists : CtorRange(c, l)
    \/ \E c \in Vecs, l \in Ranges : CtorCopy(c, l)
    \/ \E c \in Vecs, l \in Ranges : CtorMove(c, l)
    \/ \E c \in Vecs, l \in Ranges : AssignCopy(c, l)
    \/ \E c \in Vecs, l \in Ranges : AssignMove(c, l)
    \/ \E c \in Vecs, op \in {"assign_copy", "assign_move"} : AssignSelf(c, op)
    \/ \E c \in Vecs : Dtor(c)
    \/ \E c \in Vecs : Clear(c)
    \/ \E c \in Vecs, p \in Positions, x \in Values :
          p <= m_size[c] /\ InsertCopy(c, p, x)
    \/ \E c \in Vecs, p \in Positions, x \in Values :
          p <= m_size[c] /\ InsertMove(c, p, x)
    \/ \E c \in Vecs, p \in Positions, x \in Values :
          p <= m_size[c] /\ Emplace(c, p, x)
    \/ \E c \in Vecs, p \in Positions, n \in SizeT, x \in Values :
          p <= m_size[c] /\ InsertCount(c, p, n, x)
    \/ \E c \in Vecs, p \in Positions, r \in Ranges :
          p <= m_size[c] /\ InsertRange(c, p, r)
    \/ \E c \in Vecs, p \in Idx : p < m_size[c] /\ Erase(c, p)
    \/ \E c \in Vecs, x \in Values : PushBackCopy(c, x)
    \/ \E c \in Vecs, x \in Values : PushBackMove(c, x)
    \/ \E c \in Vecs, i \in Indexes : At(c, i)

Spec == Init /\ [][Next]_vars

\* the last call made or assigned a container from another one
PairOps == {"ctor_copy_of", "ctor_move_of", "assign_copy_of", "assign_move_of"}
Taken == last.op \in PairOps

\* Two containers: u is built from a range and is the source of the copies and
\* moves that make or assign v.  Right after such a call v is changed, and
\* either container is cleared or u is assigned anew; either is destroyed at
\* any time
NextPair ==
    \/ \E l \in Lists : CtorRange("u", l)
    \/ CtorDefault("v")
    \/ CtorCopyOf("v", "u")
    \/ CtorMoveOf("v", "u")
    \/ AssignCopyOf("v", "u")
    \/ AssignMoveOf("v", "u")
    \/ \E op \in {"assign_copy", "assign_move"} : AssignSelf("v", op)
    \/ \E l \in Ranges : Taken /\ AssignCopy("u", l)
    \/ \E c \in Objs : Taken /\ Clear(c)
    \/ \E c \in Objs : Dtor(c)
    \/ \E p \in Positions, x \in Values :
          Taken /\ p <= m_size["v"] /\ InsertMove("v", p, x)
    \/ \E p \in Idx : Taken /\ p < m_size["v"] /\ Erase("v", p)
    \/ \E x \in Values : Taken /\ PushBackMove("v", x)
    \/ \E i \in Idx, x \in Values : Taken /\ WriteAt("v", i, x)

SpecPair == Init /\ [][NextPair]_vars

\* One container that is built from a range and takes range inserts from
\* sources of every iterator category
NextSource ==
    \/ \E l \in Lists : CtorRange("v", l)
    \/ \E p \in Positions, r \in Ranges, k \in Categories :
          p <= m_size["v"] /\ InsertRangeFrom("v", p, r, k)
    \/ Dtor("v")

SpecSource == Init /\ [][NextSource]_vars

\* the last call was an assignment that an element constructor ended
Unwinding == last.op \in {"assign_copy", "assign_move"} /\ last.res = "ElementError"

\* One container whose element type has constructors that can throw: it is
\* built from a range, appended to and assigned, with and without an element
\* constructor throwing, and destroyed; the caller of an assignment that threw
\* goes on to destroy the container.  An assignment fails only while the
\* count of constructed elements is not negative, which bounds that count
NextThrow ==
    \/ \E l \in Lists : CtorRange("v", l)
    \/ \E x \in Values : ~Unwinding /\ PushBackCopy("v", x)
    \/ \E x \in Values : ~Unwinding /\ PushBackMove("v", x)
    \/ \E x \in Values : ~Unwinding /\ PushBackCopyFails("v", x)
    \/ \E x \in Values : ~Unwinding /\ PushBackMoveFails("v", x)
    \/ \E l \in Ranges : ~Unwinding /\ AssignCopy("v", l)
    \/ \E l \in Ranges, k \in Idx :
          ~Unwinding /\ constructed_ >= 0 /\ AssignCopyFails("v", l, k)
    \/ \E l \in Ranges, k \in Idx :
          ~Unwinding /\ constructed_ >= 0 /\ AssignMoveFails("v", l, k)
    \/ Dtor("v")

SpecThrow == Init /\ [][NextThrow]_vars

\* ------------------------------------------------------------ properties
\* the element a value constructor, a copy of it or a move of it puts in a slot
Elem(x) == [inner |-> x, ok |-> TRUE]

\* s with the sequence r put in before index i (0-based)
Splice(s, i, r) == SubSeq(s, 1, i) \o r \o SubSeq(s, i + 1, Len(s))

\* s without the element at index i (0-based)
Without(s, i) == SubSeq(s, 1, i) \o SubSeq(s, i + 2, Len(s))

Copies(n, e) == [j \in 1..n |-> e]
Payloads(r) == [j \in 1..Len(r) |-> Elem(r[j])]

SingleInserts == {"insert_copy", "insert_move", "emplace"}
PushBacks == {"push_back_copy", "push_back_move"}
MultiInserts == {"insert_count", "insert_range"}
CountedCtors == {"ctor_count_value", "ctor_count", "ctor_init_list", "ctor_range"}

\* the call left the size and the element sequence of its container as they were
Untouched == m_size[last.c] = last.presize /\ Elems(last.c) = last.pre

\* C1: after every call, failed ones included, the size of a container is
\* between 0 and Capacity
SizeWithinCapacity ==
    \A c \in Vecs : alive[c] => 0 <= m_size[c] /\ m_size[c] <= Capacity

\* a count insert has just filled the container to exactly its capacity
FilledToCapacity ==
    /\ last.op = "insert_count" /\ last.res = "ok" /\ last.count >= 2
    /\ alive[last.c] /\ m_size[last.c] = Capacity

\* C2: between calls, exactly the slots [0, size) of a container hold a
\* constructed element, and no slot of [size, Capacity) holds one
LiveExactlyBelowSize ==
    \A c \in Vecs : alive[c] => \A i \in Idx : m_data[c][i].con <=> i < m_size[c]

\* C3: every element constructed in a slot is destroyed exactly once: no
\* constructor runs on a slot that holds a constructed element, no destructor
\* runs on a slot that holds none, no constructed element is left behind when
\* its container goes away, and once every container is destroyed the
\* constructions and the destructions are as many
DestroyedExactlyOnce ==
    /\ last.faults \cap {"construct_over_live", "destroy_unconstructed", "abandon_live"} = {}
    /\ (\A c \in Vecs : ~alive[c]) => constructed_ = 0

\* C4: a size-increasing call that would take the size past Capacity fails
\* with CapacityExceeded, and a call that failed so left the size and the
\* element sequence as they were
OverflowingInsertRejected ==
    /\ (last.op \in SingleInserts \cup PushBacks /\ last.presize = Capacity)
          => last.res = "CapacityExceeded"
    /\ (last.op \in MultiInserts /\ last.presize + last.count > Capacity)
          => last.res = "CapacityExceeded"
    /\ (last.op \in SingleInserts \cup PushBacks \cup MultiInserts
          /\ last.res = "CapacityExceeded")
          => Untouched /\ last.built = 0 /\ last.destroyed = 0

\* a range of two was refused by a container one short of full
RangeOfTwoRejected ==
    /\ last.op = "insert_range" /\ last.res = "CapacityExceeded"
    /\ last.count = 2 /\ last.presize = Capacity - 1 /\ m_size[last.c] = Capacity - 1

\* C5: each of the four counted constructors fails with CapacityExceeded when
\* given more than Capacity elements, and then no container and no element
\* has come to be
OversizedCtorRejected ==
    (last.op \in CountedCtors /\ last.count > Capacity)
        => /\ last.res = "CapacityExceeded"
           /\ ~alive[last.c]
           /\ last.built = 0
           /\ \A i \in Idx : ~m_data[last.c][i].con

\* a list of Capacity + 1 elements was refused
OversizedListRejected ==
    /\ last.op = "ctor_init_list" /\ last.count = Capacity + 1
    /\ last.res = "CapacityExceeded" /\ ~alive[last.c]

\* C6: at(index) returns the element at index when index < size, fails with
\* OutOfRange for every other index, and either way changes nothing
CheckedAccess ==
    last.op = "at"
        => /\ last.pos < last.presize
                => /\ last.res = "ok"
                   /\ last.ret = last.pos
                   /\ last.val = last.pre[last.pos + 1].inner
           /\ last.pos >= last.presize => last.res = "OutOfRange"
           /\ Untouched
           /\ last.built = 0 /\ last.destroyed = 0 /\ last.faults = {}

\* at(size) was refused on a container that holds elements
AtEndRejected ==
    /\ last.op = "at" /\ last.res = "OutOfRange"
    /\ last.presize > 0 /\ last.pos = last.presize

\* C7: on a container that is not full, insert(pos, value) and emplace(pos,
\* args) at index i <= size succeed, give s[0..i) ++ [v] ++ s[i..size), grow
\* the size by one and return a cursor at i
SingleInsertSplices ==
    last.op \in SingleInserts
        => /\ last.presize < Capacity => last.res = "ok"
           /\ last.res = "ok"
                => /\ Elems(last.c) = Splice(last.pre, last.pos, <<Elem(last.val)>>)
                   /\ m_size[last.c] = last.presize + 1
                   /\ last.ret = last.pos

\* an emplace in front of two elements that differ
EmplacedBeforeTwo ==
    /\ last.op = "emplace" /\ last.res = "ok" /\ last.pos = 0
    /\ last.presize = 2 /\ last.pre[1].inner # last.pre[2].inner

\* C8: insert(pos, count, value) at index i <= size with size + count <=
\* Capacity succeeds, gives s[0..i) ++ count copies of value ++ s[i..size),
\* sets the size to size + count and returns a cursor at i
CountInsertSplices ==
    last.op = "insert_count"
        => /\ last.presize + last.count <= Capacity => last.res = "ok"
           /\ last.res = "ok"
                => /\ Elems(last.c) = Splice(last.pre, last.pos, Copies(last.count, Elem(last.val)))
                   /\ m_size[last.c] = last.presize + last.count
                   /\ last.ret = last.pos

\* C9: insert(pos, first, last) at index i <= size with a source of n elements,
\* size + n <= Capacity, succeeds, gives s[0..i) ++ source ++ s[i..size), sets
\* the size to size + n and returns a cursor at i
RangeInsertSplices ==
    last.op = "insert_range"
        => /\ last.presize + last.count <= Capacity => last.res = "ok"
           /\ last.res = "ok"
                => /\ Elems(last.c) = Splice(last.pre, last.pos, Payloads(last.rng))
                   /\ m_size[last.c] = last.presize + last.count
                   /\ last.ret = last.pos

\* C10: erase(pos) at index i < size succeeds, gives s[0..i) ++ s[i+1..size),
\* the elements behind i keeping their order, takes one off the size and
\* returns a cursor at i
EraseCloses ==
    last.op = "erase"
        => /\ last.res = "ok"
           /\ Elems(last.c) = Without(last.pre, last.pos)
           /\ m_size[last.c] = last.presize - 1
           /\ last.ret = last.pos
           /\ last.built = 0 /\ last.destroyed = 1

\* the first of three elements was erased and the two behind it differ
ErasedFirstOfThree ==
    /\ last.op = "erase" /\ last.pos = 0 /\ last.presize = 3
    /\ last.pre[2].inner # last.pre[3].inner

\* C11: insert(pos, v) at index i <= size of a container that is not full,
\* followed by erase(pos) at the same index, gives back the size and the
\* element sequence from before the insert
InsertEraseRoundTrip ==
    (last.op = "erase" /\ last.undo)
        => /\ m_size[last.c] = Len(last.orig)
           /\ Elems(last.c) = last.orig

\* an insert between two elements that differ was taken back by an erase
InsertedInMiddleErased ==
    /\ last.op = "erase" /\ last.undo /\ last.pos = 1
    /\ Len(last.orig) = 2 /\ last.orig[1].inner # last.orig[2].inner

MoveOps == {"ctor_move_of", "assign_move_of"}

\* C12: a copy-constructed container has the size of its source and the
\* source's elements index by index, and the two are independent: the copy
\* itself, and every later call on one of them that does not move from the
\* other, leaves the other's size and element sequence as they were
CopyIsIndependent ==
    /\ last.op = "ctor_copy_of"
          => /\ m_size[last.c] = last.peersize
             /\ Elems(last.c) = last.peer
             /\ last.built = last.peersize /\ last.destroyed = 0 /\ last.faults = {}
    /\ last.op \notin MoveOps \cup {"none"}
          => /\ m_size[Other(last.c)] = last.peersize
             /\ Elems(Other(last.c)) = last.peer

\* the middle element of a copy of three was erased while the source lives
CopyErasedInMiddle ==
    /\ last.op = "erase" /\ last.c = "v" /\ last.pos = 1 /\ copyable
    /\ alive["u"] /\ last.peersize = 3 /\ last.pre = last.peer
    /\ last.peer[1].inner # last.peer[3].inner
    /\ Elems("v") # Elems("u")

\* C13: copy assignment v = u runs the destructor of each of v's elements,
\* then copy-constructs u's elements in order into v's slots: v's size and
\* element sequence become those of u, and u stays as it was.  Self-assignment
\* destroys nothing, constructs nothing and leaves the size and the element
\* sequence as they were
CopyAssignReplaces ==
    /\ last.op = "assign_copy_of"
          => /\ last.res = "ok"
             /\ last.destroyed = last.presize
             /\ last.built = last.peersize
             /\ m_size[last.c] = last.peersize
             /\ Elems(last.c) = last.peer
             /\ m_size[last.o] = last.peersize
             /\ Elems(last.o) = last.peer
    /\ (last.op = "assign_copy" /\ last.res = "self")
          => Untouched /\ last.built = 0 /\ last.destroyed = 0 /\ last.faults = {}

\* a container of three was assigned a different container of two
ThreeAssignedTwo ==
    /\ last.op = "assign_copy_of" /\ last.presize = 3 /\ last.peersize = 2
    /\ last.peer[1].inner # last.peer[2].inner
    /\ SubSeq(last.pre, 1, 2) # last.peer

\* C14: move construction and move assignment give the destination the
\* source's elements in the same order and the source's size; the source keeps
\* its size and its slots [0, size) keep holding constructed, moved-from
\* elements, each of which the source's destructor, clear() or a later
\* assignment to the source destroys once
MoveKeepsSourceSize ==
    /\ last.op \in MoveOps
          => /\ last.res = "ok"
             /\ m_size[last.c] = last.peersize
             /\ Elems(last.c) = last.peer
             /\ last.built = last.peersize
             /\ m_size[last.o] = last.peersize
             /\ \A i \in Idx : i < m_size[last.o]
                    => /\ m_data[last.o][i].con
                       /\ m_data[last.o][i].inner = last.peer[i + 1].inner
                       /\ T # "Copyable" => ~m_data[last.o][i].ok
    /\ (last.c = "u" /\ last.op \in {"dtor", "clear", "assign_copy"})
          => /\ last.destroyed = last.presize
             /\ last.faults \cap {"destroy_unconstructed", "abandon_live"} = {}

\* a container of move-only elements was move-assigned two elements that
\* differ, and the source still has size two
MovedTwoIntoLive ==
    /\ last.op = "assign_move_of" /\ T = "Movable"
    /\ last.presize >= 1 /\ last.peersize = 2
    /\ last.peer[1].inner # last.peer[2].inner
    /\ last.peer[1].ok /\ last.peer[2].ok
    /\ m_size[last.o] = 2

\* C15: insert(pos, count, value) fails with CapacityExceeded, the size and
\* the element sequence staying as they were, whenever size + count does not
\* fit the size type, also when the wrapped sum is <= Capacity; for every
\* count of the size type the call succeeds only if the true sum is <= Capacity
WrappedCountRejected ==
    last.op = "insert_count"
        => /\ last.presize + last.count >= SizeMod
                => last.res = "CapacityExceeded" /\ Untouched
           /\ last.res = "ok" => last.presize + last.count <= Capacity

\* a count whose sum with the size wraps around to at most Capacity was refused
WrappedToSmallRejected ==
    /\ last.op = "insert_count" /\ last.res = "CapacityExceeded"
    /\ last.presize >= 1
    /\ last.presize + last.count >= SizeMod
    /\ (last.presize + last.count) % SizeMod <= Capacity

\* C16: from the same state push_back(v) ends as insert(end(), v) does: both
\* fail with CapacityExceeded when size = Capacity and succeed otherwise, and
\* a successful push_back leaves the size, the storage and the lifetime
\* record that insert(end(), v) computes from that state: the new element is
\* constructed in the slot at the old size and no other slot is written
PushBackIsInsertAtEnd ==
    [][last'.op \in PushBacks
         => LET c == last'.c
                ins == inserted(c, m_size[c], last'.val)
            IN  /\ last'.res = (IF full(c) THEN "CapacityExceeded" ELSE "ok")
                /\ last'.res = "CapacityExceeded"
                      => m_size'[c] = m_size[c] /\ m_data'[c] = m_data[c]
                /\ last'.res = "ok"
                      => /\ m_size'[c] = m_size[c] + 1
                         /\ m_data'[c] = ins.d
                         /\ last'.faults = ins.f
                         /\ last'.built = ins.b /\ last'.destroyed = ins.k
                         /\ last'.built = 1
                         /\ m_data'[c][m_size[c]].inner = last'.val
                         /\ \A i \in Idx : i # m_size[c] => m_data'[c][i] = m_data[c][i]]_vars

\* an element was appended to a container of two
AppendedToTwo ==
    /\ last.op \in PushBacks /\ last.res = "ok" /\ last.presize = 2
    /\ m_size[last.c] = 3 /\ m_data[last.c][2].inner = last.val

\* C17: no call reads from, assigns into or destroys a slot that holds no
\* constructed element: the tail shift of insert and emplace assigns only into
\* slots below the size, erase assigns into no slot it has destroyed, and a
\* slot outside [0, size) is written by a constructor only
NoUnconstructedAccess ==
    last.faults \cap {"read_unconstructed", "assign_unconstructed",
                      "destroy_unconstructed", "out_of_bounds"} = {}

\* C18: insert(pos, first, last) steps over each position of its source at
\* most once in the whole call, so that it is right for a single-pass source:
\* the elements it inserts are those of the source, in order
SourceConsumedOnce ==
    (last.op = "insert_range" /\ last.res = "ok" /\ last.count >= 1)
        => /\ last.advances <= last.count
           /\ Elems(last.c) = Splice(last.pre, last.pos, Payloads(last.rng))

\* C19: when an element constructor throws partway through a copy or move
\* assignment, the error reaches the caller as it is and the destination
\* keeps its invariant: exactly its slots [0, size) hold a constructed element,
\* so that destroying it later destroys constructed elements only
AssignFailureKeepsInvariant ==
    /\ (last.op \in {"assign_copy", "assign_move"} /\ last.res = "ElementError")
          => \A i \in Idx : m_data[last.c][i].con <=> i < m_size[last.c]
    /\ last.op \in {"dtor", "clear"} => "destroy_unconstructed" \notin last.faults

\* C20: when the element constructor throws in push_back on a container that
\* is not full, the error reaches the caller and the container is as before:
\* the size is not incremented, every slot keeps what it held and no element
\* was constructed or destroyed
PushBackFailureLeavesAll ==
    [][(last'.op \in PushBacks /\ m_size[last'.c] < Capacity /\ last'.res # "ok")
         => /\ last'.res = "ElementError"
            /\ m_size'[last'.c] = m_size[last'.c]
            /\ m_data'[last'.c] = m_data[last'.c]
            /\ constructed_' = constructed_
            /\ last'.built = 0 /\ last'.destroyed = 0]_vars

\* the constructor threw in a push_back on a container of two
AppendToTwoFailed ==
    /\ last.op \in PushBacks /\ last.res = "ElementError"
    /\ last.presize = 2 /\ m_size[last.c] = 2 /\ Elems(last.c) = last.pre
    /\ last.pre[1].inner # last.pre[2].inner

\* C21: a multi-element insert of no elements, insert(pos, 0, value) or
\* insert(pos, first, first), succeeds at every size, size = Capacity
\* included, constructs and destroys nothing, leaves the size and the element
\* sequence as they were and returns a cursor at pos
ZeroInsertIsNoOp ==
    (last.op \in MultiInserts /\ last.count = 0)
        => /\ last.res = "ok"
           /\ last.ret = last.pos
           /\ last.built = 0 /\ last.destroyed = 0
           /\ Untouched

====
